---- MODULE Spec2Model ----
(***************************************************************************)
(* Model of transcode_rtsp_windows.py: the selection resolver, the ffmpeg  *)
(* command compiler and the supervision of the ffmpeg child process in     *)
(* run_ffmpeg_transcoder (main thread, child process, two drain threads,   *)
(* KeyboardInterrupt delivery).                                            *)
(***************************************************************************)
EXTENDS Integers, Sequences, FiniteSets, TLC

(* ---------------------------- bounds ----------------------------------- *)
\* longest list of requested profile names that is explored
MaxReq == 2
\* most KeyboardInterrupts delivered to the main thread in one run
MaxInterrupts == 2
\* most lines the child writes to its two pipes together
MaxLines == 2
\* longest list of profiles handed to build_ffmpeg_command directly
MaxProfiles == 2

(* ----------------------- program constants ----------------------------- *)
\* process.wait(timeout=10)
GracefulTimeout == 10
\* stdout_thread.join(timeout=1), stderr_thread.join(timeout=1)
JoinTimeout == 1

RTSP_INPUT_URL == "rtsp://192.168.201.72:8080/h264.sdp"
MEDIAMTX_RTSP_BASE_URL == "rtsp://localhost:8554/live"

\* max_rate_multiplier is kept as its literal: the decimal fraction num/den
ALL_STREAM_PROFILES ==
  << [ name |-> "high", resolution |-> "1280x720",
       video_bitrate |-> <<"5","1","2","k">>,
       max_rate_multiplier |-> [num |-> 13, den |-> 10],
       audio_bitrate |-> "48k", gop_size |-> 40, preset |-> "superfast",
       video_codec |-> "libx265", audio_codec |-> "aac", output_fps |-> 20,
       x265_extra_opts |-> << "-tune", "zerolatency", "-x265-params",
            "aq-mode=2:aq-strength=0.8:psy-rd=1.5:rdoq=1" >> ],
     [ name |-> "low", resolution |-> "1280x720",
       video_bitrate |-> <<"1","9","2","k">>,
       max_rate_multiplier |-> [num |-> 2, den |-> 1],
       audio_bitrate |-> "24k", gop_size |-> 60, preset |-> "superfast",
       video_codec |-> "libx265", audio_codec |-> "aac", output_fps |-> 15,
       x265_extra_opts |-> << "-tune", "zerolatency", "-x265-params",
            "rc-lookahead=10:aq-mode=2:aq-strength=1.0:psy-rd=1.5:rdoq=1" >> ],
     [ name |-> "quality", resolution |-> "1280x720",
       video_bitrate |-> <<"2","5","6","k">>,
       max_rate_multiplier |-> [num |-> 5, den |-> 2],
       audio_bitrate |-> "32k", gop_size |-> 100, preset |-> "fast",
       video_codec |-> "libx265", audio_codec |-> "aac", output_fps |-> 15,
       x265_extra_opts |-> << "-x265-params",
            "rc-lookahead=30:aq-mode=2:aq-strength=1.0:psy-rd=2.0:rdoq=2:qpmin=10:qpmax=51:nr-intra=8:nr-inter=8" >> ] >>

\* profiles a caller of build_ffmpeg_command may pass besides the registry's:
\* other codecs, extra-option lists of several codec families, no preset,
\* no output_fps, other bitrates and multipliers
OtherProfiles ==
  << [ name |-> "nv", resolution |-> "1920x1080",
       video_bitrate |-> <<"1","0","0","k">>,
       max_rate_multiplier |-> [num |-> 115, den |-> 100],
       audio_bitrate |-> "64k", gop_size |-> 50,
       video_codec |-> "hevc_nvenc", audio_codec |-> "aac",
       x265_extra_opts |-> << "-tune", "zerolatency" >>,
       nvenc_extra_opts |-> << "-rc", "cbr" >>,
       qsv_extra_opts |-> << "-look_ahead", "0" >> ],
     [ name |-> "qsv", resolution |-> "640x360",
       video_bitrate |-> <<"1","0","0","k">>,
       max_rate_multiplier |-> [num |-> 23, den |-> 10],
       audio_bitrate |-> "32k", gop_size |-> 30, preset |-> "veryfast",
       video_codec |-> "hevc_qsv", audio_codec |-> "aac", output_fps |-> 30,
       qsv_extra_opts |-> << "-look_ahead", "0" >> ],
     [ name |-> "avc", resolution |-> "640x360",
       video_bitrate |-> <<"1","0","0","0","k">>,
       max_rate_multiplier |-> [num |-> 15, den |-> 10],
       audio_bitrate |-> "32k", gop_size |-> 25, preset |-> "medium",
       video_codec |-> "libx264", audio_codec |-> "libopus" ],
     [ name |-> "avcx", resolution |-> "640x360",
       video_bitrate |-> <<"3","0","0","k">>,
       max_rate_multiplier |-> [num |-> 1, den |-> 1],
       audio_bitrate |-> "32k", gop_size |-> 25,
       video_codec |-> "libx264", audio_codec |-> "aac", output_fps |-> 25,
       x265_extra_opts |-> << "-tune", "zerolatency" >> ],
     [ name |-> "nvq", resolution |-> "1280x720",
       video_bitrate |-> <<"8","0","0","k">>,
       max_rate_multiplier |-> [num |-> 11, den |-> 10],
       audio_bitrate |-> "48k", gop_size |-> 40, preset |-> "p4",
       video_codec |-> "hevc_nvenc", audio_codec |-> "aac", output_fps |-> 20,
       qsv_extra_opts |-> << "-look_ahead", "0" >> ] >>

TestProfiles == ALL_STREAM_PROFILES \o OtherProfiles

\* names a caller may pass: the registry's names and one unknown name
RequestNames == {"high", "low", "quality", "bogus"}

RegistryNames == { ALL_STREAM_PROFILES[i].name : i \in DOMAIN ALL_STREAM_PROFILES }

(* --------------------------- pure helpers ------------------------------ *)
\* str.replace('k', ''): every 'k' character is removed
RECURSIVE replace_k(_)
replace_k(s) ==
  IF s = << >> THEN << >>
  ELSE IF Head(s) = "k" THEN replace_k(Tail(s))
       ELSE << Head(s) >> \o replace_k(Tail(s))

DigitValue(c) ==
  CASE c = "0" -> 0 [] c = "1" -> 1 [] c = "2" -> 2 [] c = "3" -> 3
    [] c = "4" -> 4 [] c = "5" -> 5 [] c = "6" -> 6 [] c = "7" -> 7
    [] c = "8" -> 8 [] c = "9" -> 9

\* int(<decimal digits>)
RECURSIVE int_of(_)
int_of(s) ==
  IF s = << >> THEN 0
  ELSE 10 * int_of(SubSeq(s, 1, Len(s) - 1)) + DigitValue(s[Len(s)])

\* the characters of a bitrate string joined back into one argument
RECURSIVE str_of(_)
str_of(s) == IF s = << >> THEN "" ELSE Head(s) \o str_of(Tail(s))

\* the inner loop of the resolver: first registry entry, scanning from
\* position i, whose name equals the requested one; 0 when there is none
RECURSIVE lookup_from(_, _)
lookup_from(name, i) ==
  IF i > Len(ALL_STREAM_PROFILES) THEN 0
  ELSE IF ALL_STREAM_PROFILES[i].name = name THEN i
       ELSE lookup_from(name, i + 1)

lookup(name) == lookup_from(name, 1)

\* A Python float is modelled bit by bit.  Binary numbers are sequences of
\* bits, most significant bit first, and are handled LimbBits bits at a time.
\* The steps are functions, so that every operand is evaluated once, as
\* Python evaluates it.
LimbBits == 10

\* significand width of a Python float (IEEE-754 binary64)
Precision == 53

\* fraction bits that the conversion of a literal develops before rounding
FracBits == 70

Bit == {0, 1}

\* a decimal literal num/den; a float value_of[bits] / 2^frac
Literal == [num : Nat, den : Nat]
Float == [bits : Seq(Bit), frac : Nat]

\* the k-bit representation of n (n < 2^k)
fixed_bits[n \in Nat, k \in Nat] == [i \in 1..k |-> (n \div 2^(k - i)) % 2]

\* the shortest representation of n (n < 2^30); the empty string for 0
bits_of[n \in Nat] ==
  IF n = 0 THEN << >>
  ELSE fixed_bits[n, CHOOSE k \in 1..30 : 2^(k - 1) <= n /\ (k = 30 \/ n < 2^k)]

value_of[b \in Seq(Bit)] ==
  IF b = << >> THEN 0
  ELSE IF Len(b) = 1 THEN b[1]
  ELSE LET h == Len(b) \div 2
       IN  value_of[SubSeq(b, 1, h)] * 2^(Len(b) - h)
             + value_of[SubSeq(b, h + 1, Len(b))]

\* number of leading zero bits
leading_zeros[b \in Seq(Bit)] ==
  IF \A i \in DOMAIN b : b[i] = 0 THEN Len(b)
  ELSE (CHOOSE i \in DOMAIN b : b[i] = 1 /\ \A j \in 1..(i - 1) : b[j] = 0) - 1

\* b + 1
increment[b \in Seq(Bit)] ==
  IF \A i \in DOMAIN b : b[i] = 1 THEN << 1 >> \o [i \in DOMAIN b |-> 0]
  ELSE LET k == CHOOSE i \in DOMAIN b :
                  b[i] = 0 /\ \A j \in (i + 1)..Len(b) : b[j] = 1
       IN  [i \in DOMAIN b |-> IF i < k THEN b[i] ELSE IF i = k THEN 1 ELSE 0]

\* round-half-to-even of bit string b, of which 'keep' bits are kept; the
\* bits that are dropped are replaced by zeros, so the length is kept
\* (or grows by one when the rounding carries out of the top bit)
round_at[b \in Seq(Bit), keep \in Nat] ==
  IF Len(b) <= keep THEN b
  ELSE LET sticky == \E i \in (keep + 2)..Len(b) : b[i] = 1
           up == b[keep + 1] = 1 /\ (sticky \/ b[keep] = 1)
       IN  (IF up THEN increment[SubSeq(b, 1, keep)] ELSE SubSeq(b, 1, keep))
             \o [i \in 1..(Len(b) - keep) |-> 0]

\* rounding to Precision significant bits
round_bits[b \in Seq(Bit)] == round_at[b, leading_zeros[b] + Precision]

\* binary long division r/den (r < den < 2^20): 'todo' fraction bits,
\* followed by one bit that tells whether a remainder is left
frac_bits[r \in Nat, den \in Nat, todo \in Nat] ==
  IF todo = 0 THEN << IF r = 0 THEN 0 ELSE 1 >>
  ELSE LET k == IF todo < LimbBits THEN todo ELSE LimbBits
       IN  fixed_bits[(r * 2^k) \div den, k]
             \o frac_bits[(r * 2^k) % den, den, todo - k]

\* the float that the literal num/den denotes (num/den = 0 or >= 2^-16):
\* [bits, frac] stands for value_of[bits] / 2^frac
float_of[m \in Literal] ==
  [bits |-> round_bits[bits_of[m.num \div m.den]
                         \o frac_bits[m.num % m.den, m.den, FracBits]],
   frac |-> FracBits + 1]

\* bit string times an integer n (n < 2^20), plus carry
times[b \in Seq(Bit), n \in Nat, carry \in Nat] ==
  IF b = << >> THEN bits_of[carry]
  ELSE LET k == IF Len(b) < LimbBits THEN Len(b) ELSE LimbBits
           t == value_of[SubSeq(b, Len(b) - k + 1, Len(b))] * n + carry
       IN  times[SubSeq(b, 1, Len(b) - k), n, t \div 2^k]
             \o fixed_bits[t % 2^k, k]

\* int * float: the exact product rounded to a float
float_mul[n \in Nat, x \in Float] ==
  [bits |-> round_bits[times[x.bits, n, 0]], frac |-> x.frac]

\* int(float): truncation towards zero
int_trunc[x \in Float] ==
  IF Len(x.bits) <= x.frac THEN 0
  ELSE value_of[SubSeq(x.bits, 1, Len(x.bits) - x.frac)]

\* int(base_bitrate_k * profile['max_rate_multiplier']); an int multiplier
\* (den = 1) makes the product an int, which int() returns unchanged
int_mul(base, m) ==
  IF m.den = 1 THEN base * m.num
  ELSE int_trunc[float_mul[base, float_of[m]]]

Has(profile, key) == key \in DOMAIN profile

\* variant: '-preset' is emitted after the rate-control block
profile_args_PresetLast(profile, mediamtx_base_url) ==
  LET base_bitrate_k == int_of(replace_k(profile.video_bitrate))
      max_rate_k == int_mul(base_bitrate_k, profile.max_rate_multiplier)
      buf_size_k == max_rate_k * 2
  IN  << "-map", "0:v:0", "-map", "0:a:0?" >>
      \o (IF Has(profile, "x265_extra_opts")
            THEN profile.x265_extra_opts ELSE << >>)
      \o (IF profile.video_codec = "hevc_nvenc" /\ Has(profile, "nvenc_extra_opts")
            THEN profile.nvenc_extra_opts
          ELSE IF profile.video_codec = "hevc_qsv" /\ Has(profile, "qsv_extra_opts")
            THEN profile.qsv_extra_opts
          ELSE << >>)
      \o << "-c:v", profile.video_codec >>
      \o << "-b:v", str_of(profile.video_bitrate),
            "-maxrate", ToString(max_rate_k) \o "k",
            "-bufsize", ToString(buf_size_k) \o "k",
            "-s", profile.resolution,
            "-g", ToString(profile.gop_size),
            "-keyint_min", ToString(profile.gop_size),
            "-sc_threshold", "0",
            "-pix_fmt", "yuv420p" >>
      \o (IF Has(profile, "preset") THEN << "-preset", profile.preset >> ELSE << >>)
      \o (IF Has(profile, "output_fps")
            THEN << "-r", ToString(profile.output_fps) >> ELSE << >>)
      \o << "-c:a", profile.audio_codec,
            "-b:a", profile.audio_bitrate,
            "-ac", "2",
            "-ar", "48000",
            "-af", "aresample=async=1000:first_pts=0" >>
      \o << "-f", "rtsp", mediamtx_base_url \o "/" \o profile.name >>

\* the argument block that one iteration of the loop appends for a profile
profile_args(profile, mediamtx_base_url) ==
  LET base_bitrate_k == int_of(replace_k(profile.video_bitrate))
      max_rate_k == int_mul(base_bitrate_k, profile.max_rate_multiplier)
      buf_size_k == max_rate_k * 2
  IN  << "-map", "0:v:0", "-map", "0:a:0?" >>
      \o (IF Has(profile, "x265_extra_opts")
            THEN profile.x265_extra_opts ELSE << >>)
      \o (IF profile.video_codec = "hevc_nvenc" /\ Has(profile, "nvenc_extra_opts")
            THEN profile.nvenc_extra_opts
          ELSE IF profile.video_codec = "hevc_qsv" /\ Has(profile, "qsv_extra_opts")
            THEN profile.qsv_extra_opts
          ELSE << >>)
      \o << "-c:v", profile.video_codec >>
      \o (IF Has(profile, "preset") THEN << "-preset", profile.preset >> ELSE << >>)
      \o << "-b:v", str_of(profile.video_bitrate),
            "-maxrate", ToString(max_rate_k) \o "k",
            "-bufsize", ToString(buf_size_k) \o "k",
            "-s", profile.resolution,
            "-g", ToString(profile.gop_size),
            "-keyint_min", ToString(profile.gop_size),
            "-sc_threshold", "0",
            "-pix_fmt", "yuv420p" >>
      \o (IF Has(profile, "output_fps")
            THEN << "-r", ToString(profile.output_fps) >> ELSE << >>)
      \o << "-c:a", profile.audio_codec,
            "-b:a", profile.audio_bitrate,
            "-ac", "2",
            "-ar", "48000",
            "-af", "aresample=async=1000:first_pts=0" >>
      \o << "-f", "rtsp", mediamtx_base_url \o "/" \o profile.name >>

RECURSIVE all_profile_args(_, _)
\* variant: the block of each profile is put in front of the blocks of the
\* profiles that follow it in the list
all_profile_args_Reversed(profiles, mediamtx_base_url) ==
  IF profiles = << >> THEN << >>
  ELSE all_profile_args(Tail(profiles), mediamtx_base_url)
       \o profile_args(Head(profiles), mediamtx_base_url)

all_profile_args(profiles, mediamtx_base_url) ==
  IF profiles = << >> THEN << >>
  ELSE profile_args(Head(profiles), mediamtx_base_url)
       \o all_profile_args(Tail(profiles), mediamtx_base_url)

build_ffmpeg_command(input_url, profiles_to_use, mediamtx_base_url) ==
  << "ffmpeg", "-i", input_url, "-rtsp_transport", "tcp",
     "-threads", "0", "-nostdin", "-loglevel", "info" >>
  \o all_profile_args(profiles_to_use, mediamtx_base_url)
(* ------------------------------ state ---------------------------------- *)
VARIABLES
  selected_profile_names, \* the argument of run_ffmpeg_transcoder
  idx,                    \* names already handled by the outer for loop
  profiles_to_run,        \* the list built by the resolver
  ffmpeg_cmd,             \* the compiled argument vector, << >> before line 158
  log,                    \* records handed to logging by the main thread
  pc,                     \* position of the main thread in run_ffmpeg_transcoder
  process,                \* the local 'process': "None" or "Popen"
  child,                  \* the ffmpeg process: "none", "running", "exited"
  returncode,             \* exit status of the child as printed, "None" while it has none
  pipe,                   \* per stream: "none", "open", "closed"
  thread,                 \* per stream: the drain thread's life cycle
  joined,                 \* per stream: outcome of the teardown join
  waited,                 \* time units the running (or timed-out) wait(timeout=10) took
  joinWaited,             \* per stream: time units the running (or timed-out) join took
  spawnCount,             \* calls of subprocess.Popen
  termCount,              \* calls of process.terminate()
  killCount,              \* calls of process.kill()
  interrupts,             \* KeyboardInterrupts delivered so far
  kiAt,                   \* region in which the first KeyboardInterrupt arrived
  caught,                 \* except clause entered: "none", "KeyboardInterrupt", "Exception"
  polled,                 \* 'process and process.poll() is None' as evaluated by a handler
  timedOut,               \* subprocess.TimeoutExpired was raised by wait(timeout=10)
  pending,                \* exception in flight while the finally block runs
  exc,                    \* exception that left run_ffmpeg_transcoder
  failedWhileRunning,     \* a drain thread died on a read error while the child ran
  written,                \* << stream, line >> for every line the child wrote, in order
  readPos,                \* per stream: lines its drain thread has consumed
  drainLog                \* records handed to logging by the drain threads

vars == << selected_profile_names, idx, profiles_to_run, ffmpeg_cmd, log, pc,
           process, child, returncode, pipe, thread, joined, waited, joinWaited,
           spawnCount, termCount, killCount, interrupts, kiAt, caught, polled,
           timedOut, pending, exc, failedWhileRunning, written, readPos,
           drainLog >>

drainVars == << written, readPos, drainLog >>
resolverVars == << selected_profile_names, idx, profiles_to_run >>
childVars == << child, returncode, pipe >>
threadVars == << thread, failedWhileRunning >>
joinVars == << joined, joinWaited >>
callVars == << spawnCount, termCount, killCount >>
excVars == << interrupts, kiAt, caught, polled, timedOut, pending, exc >>

Streams == {"stdout", "stderr"}

\* exit codes of a child that ends by itself
OwnExitCodes == {0, 1}

PreTry == {"resolve", "check", "build"}
TryBody == {"spawn", "bind", "mk_out", "mk_err", "start_out", "start_err",
            "wait", "log_exit"}
KiHandler == {"ki_handler", "terminate", "wait10", "kill", "wait_kill", "ki_log"}
ExcHandler == {"exc_handler", "exc_kill"}
FinallyBlock == {"fin_out", "join_out", "fin_err", "join_err"}
Final == {"done", "raised"}

RECURSIVE SeqsUpTo(_, _)
SeqsUpTo(S, n) ==
  IF n = 0 THEN { << >> }
  ELSE LET shorter == SeqsUpTo(S, n - 1)
       IN  shorter \cup { Append(q, x) : q \in shorter, x \in S }

Init ==
  /\ selected_profile_names \in SeqsUpTo(RequestNames, MaxReq)
  /\ idx = 0
  /\ profiles_to_run = << >>
  /\ ffmpeg_cmd = << >>
  /\ log = << >>
  /\ pc = "resolve"
  /\ process = "None"
  /\ child = "none"
  /\ returncode = "None"
  /\ pipe = [s \in Streams |-> "none"]
  /\ thread = [s \in Streams |-> "unbound"]
  /\ joined = [s \in Streams |-> "none"]
  /\ waited = 0
  /\ joinWaited = [s \in Streams |-> 0]
  /\ spawnCount = 0
  /\ termCount = 0
  /\ killCount = 0
  /\ interrupts = 0
  /\ kiAt = "none"
  /\ caught = "none"
  /\ polled = "none"
  /\ timedOut = FALSE
  /\ pending = "none"
  /\ exc = "none"
  /\ failedWhileRunning = FALSE
  /\ written = << >>
  /\ readPos = [s \in Streams |-> 0]
  /\ drainLog = << >>

Log(level, tag, arg) == log' = Append(log, << level, tag, arg >>)

(* ------------------- selection resolver, lines 142-156 ----------------- *)
\* variant: a profile that is already in the list is not appended again
ResolveName_Dedup ==
  /\ pc = "resolve"
  /\ idx < Len(selected_profile_names)
  /\ LET name == selected_profile_names[idx + 1]
         found == lookup(name)
     IN  IF found # 0
           THEN /\ profiles_to_run' =
                     IF \E i \in DOMAIN profiles_to_run :
                          profiles_to_run[i] = ALL_STREAM_PROFILES[found]
                       THEN profiles_to_run
                       ELSE Append(profiles_to_run, ALL_STREAM_PROFILES[found])
                /\ UNCHANGED log
           ELSE /\ Log("warning", "profile_not_found", name)
                /\ UNCHANGED profiles_to_run
  /\ idx' = idx + 1
  /\ UNCHANGED << drainVars, selected_profile_names, ffmpeg_cmd, pc, process, childVars,
                  threadVars, joinVars, waited, callVars, excVars >>

\* one iteration of 'for name in selected_profile_names'
ResolveName ==
  /\ pc = "resolve"
  /\ idx < Len(selected_profile_names)
  /\ LET name == selected_profile_names[idx + 1]
         found == lookup(name)
     IN  IF found # 0
           THEN /\ profiles_to_run' = Append(profiles_to_run, ALL_STREAM_PROFILES[found])
                /\ UNCHANGED log
           ELSE /\ Log("warning", "profile_not_found", name)
                /\ UNCHANGED profiles_to_run
  /\ idx' = idx + 1
  /\ UNCHANGED << drainVars, selected_profile_names, ffmpeg_cmd, pc, process, childVars,
                  threadVars, joinVars, waited, callVars, excVars >>

\* the for loop is exhausted
ResolveDone ==
  /\ pc = "resolve"
  /\ idx = Len(selected_profile_names)
  /\ pc' = "check"
  /\ UNCHANGED << drainVars, resolverVars, ffmpeg_cmd, log, process, childVars, threadVars,
                  joinVars, waited, callVars, excVars >>

\* variant: the error is logged but the function does not return
CheckEmpty_NoReturn ==
  /\ pc = "check"
  /\ IF profiles_to_run = << >>
       THEN Log("error", "no_profiles", "")
       ELSE UNCHANGED log
  /\ pc' = "build"
  /\ UNCHANGED << drainVars, resolverVars, ffmpeg_cmd, process, childVars, threadVars,
                  joinVars, waited, callVars, excVars >>

\* 'if not profiles_to_run: logging.error(...); return'
CheckEmpty ==
  /\ pc = "check"
  /\ IF profiles_to_run = << >>
       THEN /\ Log("error", "no_profiles", "")
            /\ pc' = "done"
       ELSE /\ pc' = "build"
            /\ UNCHANGED log
  /\ UNCHANGED << drainVars, resolverVars, ffmpeg_cmd, process, childVars, threadVars,
                  joinVars, waited, callVars, excVars >>

\* lines 158-174: compile the command, log the plan, process = None
Build ==
  /\ pc = "build"
  /\ ffmpeg_cmd' = build_ffmpeg_command(RTSP_INPUT_URL, profiles_to_run,
                                        MEDIAMTX_RTSP_BASE_URL)
  /\ Log("info", "start", "")
  /\ process' = "None"
  /\ pc' = "spawn"
  /\ UNCHANGED << drainVars, resolverVars, childVars, threadVars, joinVars, waited,
                  callVars, excVars >>
(* ------------------- try body, lines 175-197 --------------------------- *)
\* entering 'except Exception as e' (lines 210-211)
RaiseException ==
  /\ caught' = "Exception"
  /\ pc' = "exc_handler"

\* subprocess.Popen(...) creates the child and its two pipes
SpawnOk ==
  /\ pc = "spawn"
  /\ spawnCount' = spawnCount + 1
  /\ child' = "running"
  /\ pipe' = [s \in Streams |-> "open"]
  /\ pc' = "bind"
  /\ UNCHANGED << drainVars, resolverVars, ffmpeg_cmd, log, process, returncode, threadVars,
                  joinVars, waited, termCount, killCount, excVars >>

\* subprocess.Popen(...) raises (executable not found, permission denied)
SpawnFail ==
  /\ pc = "spawn"
  /\ spawnCount' = spawnCount + 1
  /\ RaiseException
  /\ UNCHANGED << drainVars, resolverVars, ffmpeg_cmd, log, process, childVars, threadVars,
                  joinVars, waited, termCount, killCount, interrupts, kiAt,
                  polled, timedOut, pending, exc >>

\* 'process = <the Popen object>': the store that follows the call
BindProcess ==
  /\ pc = "bind"
  /\ process' = "Popen"
  /\ pc' = "mk_out"
  /\ UNCHANGED << drainVars, resolverVars, ffmpeg_cmd, log, childVars, threadVars, joinVars,
                  waited, callVars, excVars >>

\* line 187: stdout_thread = threading.Thread(...)
MakeStdoutThread ==
  /\ pc = "mk_out"
  /\ thread' = [thread EXCEPT !["stdout"] = "created"]
  /\ pc' = "mk_err"
  /\ UNCHANGED << drainVars, resolverVars, ffmpeg_cmd, log, process, childVars,
                  failedWhileRunning, joinVars, waited, callVars, excVars >>

\* lines 188-190: stderr_thread = threading.Thread(...), daemon flags
MakeStderrThread ==
  /\ pc = "mk_err"
  /\ thread' = [thread EXCEPT !["stderr"] = "created"]
  /\ pc' = "start_out"
  /\ UNCHANGED << drainVars, resolverVars, ffmpeg_cmd, log, process, childVars,
                  failedWhileRunning, joinVars, waited, callVars, excVars >>

\* Thread.start(): the thread runs, or RuntimeError (can't start new thread)
StartThread(s, here, next) ==
  /\ pc = here
  /\ \/ /\ thread' = [thread EXCEPT ![s] = "alive"]
        /\ pc' = next
        /\ UNCHANGED caught
     \/ /\ RaiseException
        /\ UNCHANGED thread
  /\ UNCHANGED << drainVars, resolverVars, ffmpeg_cmd, log, process, childVars,
                  failedWhileRunning, joinVars, waited, callVars, interrupts,
                  kiAt, polled, timedOut, pending, exc >>

\* line 191
StartStdoutThread == StartThread("stdout", "start_out", "start_err")

\* lines 192-194
StartStderrThread == StartThread("stderr", "start_err", "wait")

\* line 195: process.wait() returns once the child has exited
WaitReturns ==
  /\ pc = "wait"
  /\ child = "exited"
  /\ pc' = "log_exit"
  /\ UNCHANGED << drainVars, resolverVars, ffmpeg_cmd, log, process, childVars, threadVars,
                  joinVars, waited, callVars, excVars >>

\* line 197: the exit code is logged, the try body ends
LogExitCode ==
  /\ pc = "log_exit"
  /\ Log("info", "exit_code", returncode)
  /\ pc' = "fin_out"
  /\ UNCHANGED << drainVars, resolverVars, ffmpeg_cmd, process, childVars, threadVars,
                  joinVars, waited, callVars, excVars >>

(* ------------- except KeyboardInterrupt, lines 199-209 ----------------- *)
\* 'process and process.poll() is None'
ProcessAlive == process # "None" /\ child = "running"

\* lines 200-201
KiHandlerEntry ==
  /\ pc = "ki_handler"
  /\ Log("info", "ctrl_c", "")
  /\ IF ProcessAlive
       THEN polled' = "alive" /\ pc' = "terminate"
       ELSE polled' = "dead" /\ pc' = "ki_log"
  /\ UNCHANGED << drainVars, resolverVars, ffmpeg_cmd, process, childVars, threadVars,
                  joinVars, waited, callVars, interrupts, kiAt, caught,
                  timedOut, pending, exc >>

\* line 202: process.terminate()
Terminate ==
  /\ pc = "terminate"
  /\ termCount' = termCount + 1
  /\ waited' = 0
  /\ pc' = "wait10"
  /\ UNCHANGED << drainVars, resolverVars, ffmpeg_cmd, log, process, childVars, threadVars,
                  joinVars, spawnCount, killCount, excVars >>

\* line 204: process.wait(timeout=10) returns, the child has exited
GracefulWaitReturns ==
  /\ pc = "wait10"
  /\ child = "exited"
  /\ pc' = "ki_log"
  /\ waited' = 0
  /\ UNCHANGED << drainVars, resolverVars, ffmpeg_cmd, log, process, childVars, threadVars,
                  joinVars, callVars, excVars >>

\* variant: the graceful wait gives up after one time unit
GracefulExpired_Early == waited >= 1

\* the timeout of process.wait(timeout=10) has elapsed
GracefulExpired == waited = GracefulTimeout

\* lines 205-206: subprocess.TimeoutExpired is raised and caught
GracefulWaitTimesOut ==
  /\ pc = "wait10"
  /\ child = "running"
  /\ GracefulExpired
  /\ timedOut' = TRUE
  /\ Log("warning", "no_graceful_shutdown", "")
  /\ pc' = "kill"
  /\ UNCHANGED << drainVars, resolverVars, ffmpeg_cmd, process, childVars, threadVars,
                  joinVars, waited, callVars, interrupts, kiAt, caught, polled,
                  pending, exc >>

\* variant: after the timeout the handler waits again without killing
KillAfterTimeout_NoKill ==
  /\ pc = "kill"
  /\ pc' = "wait_kill"
  /\ UNCHANGED << drainVars, resolverVars, ffmpeg_cmd, log, process, childVars, threadVars,
                  joinVars, waited, callVars, excVars >>

\* line 207: process.kill()
KillAfterTimeout ==
  /\ pc = "kill"
  /\ killCount' = killCount + 1
  /\ pc' = "wait_kill"
  /\ UNCHANGED << drainVars, resolverVars, ffmpeg_cmd, log, process, childVars, threadVars,
                  joinVars, waited, spawnCount, termCount, excVars >>

\* line 208: process.wait() after the kill
WaitAfterKill ==
  /\ pc = "wait_kill"
  /\ child = "exited"
  /\ pc' = "ki_log"
  /\ UNCHANGED << drainVars, resolverVars, ffmpeg_cmd, log, process, childVars, threadVars,
                  joinVars, waited, callVars, excVars >>

\* line 209
KiHandlerLog ==
  /\ pc = "ki_log"
  /\ Log("info", "process_ended", "")
  /\ pc' = "fin_out"
  /\ UNCHANGED << drainVars, resolverVars, ffmpeg_cmd, process, childVars, threadVars,
                  joinVars, waited, callVars, excVars >>

(* ---------------- except Exception, lines 210-213 ---------------------- *)
\* variant: when no process exists the handler tries the spawn again
ExcHandlerEntry_Retry ==
  /\ pc = "exc_handler"
  /\ Log("error", "unexpected_error", "")
  /\ IF ProcessAlive
       THEN polled' = "alive" /\ pc' = "exc_kill"
       ELSE polled' = "dead" /\ pc' = IF process = "None" THEN "spawn" ELSE "fin_out"
  /\ UNCHANGED << drainVars, resolverVars, ffmpeg_cmd, process, childVars, threadVars,
                  joinVars, waited, callVars, interrupts, kiAt, caught,
                  timedOut, pending, exc >>

\* lines 211-212
ExcHandlerEntry ==
  /\ pc = "exc_handler"
  /\ Log("error", "unexpected_error", "")
  /\ IF ProcessAlive
       THEN polled' = "alive" /\ pc' = "exc_kill"
       ELSE polled' = "dead" /\ pc' = "fin_out"
  /\ UNCHANGED << drainVars, resolverVars, ffmpeg_cmd, process, childVars, threadVars,
                  joinVars, waited, callVars, interrupts, kiAt, caught,
                  timedOut, pending, exc >>

\* variant: the error handler asks for termination instead of killing
ExcKill_Terminate ==
  /\ pc = "exc_kill"
  /\ termCount' = termCount + 1
  /\ pc' = "fin_out"
  /\ UNCHANGED << drainVars, resolverVars, ffmpeg_cmd, log, process, childVars, threadVars,
                  joinVars, waited, spawnCount, killCount, excVars >>

\* line 213: process.kill(), nothing waits for the child afterwards
ExcKill ==
  /\ pc = "exc_kill"
  /\ killCount' = killCount + 1
  /\ pc' = "fin_out"
  /\ UNCHANGED << drainVars, resolverVars, ffmpeg_cmd, log, process, childVars, threadVars,
                  joinVars, waited, spawnCount, termCount, excVars >>
(* -------------------- finally, lines 214-218 --------------------------- *)
\* how control leaves a step of the finally block: on to the next statement,
\* or out of the function (re-raising the exception in flight, if any)
LeaveTo(next) ==
  IF next # "end" THEN pc' = next /\ UNCHANGED exc
  ELSE IF pending = "none" THEN pc' = "done" /\ UNCHANGED exc
  ELSE pc' = "raised" /\ exc' = pending

\* 'if <t>.is_alive():' and the call of join; reading a local that was never
\* assigned raises UnboundLocalError out of the finally block
FinCheck(s, here, joinpc, next) ==
  /\ pc = here
  /\ CASE thread[s] = "unbound" ->
            /\ pc' = "raised"
            /\ exc' = "UnboundLocalError"
            /\ UNCHANGED << joined, joinWaited >>
       [] thread[s] = "alive" ->
            /\ pc' = joinpc
            /\ joinWaited' = [joinWaited EXCEPT ![s] = 0]
            /\ UNCHANGED << joined, exc >>
       [] OTHER ->
            /\ joined' = [joined EXCEPT ![s] = "skipped"]
            /\ LeaveTo(next)
            /\ UNCHANGED joinWaited
  /\ UNCHANGED << drainVars, resolverVars, ffmpeg_cmd, log, process, childVars, threadVars,
                  waited, callVars, interrupts, kiAt, caught, polled, timedOut,
                  pending >>

\* join(timeout=1) returns because the thread has ended
JoinReturns(s, joinpc, next) ==
  /\ pc = joinpc
  /\ thread[s] \in {"finished", "failed"}
  /\ joined' = [joined EXCEPT ![s] = "finished"]
  /\ joinWaited' = [joinWaited EXCEPT ![s] = 0]
  /\ LeaveTo(next)
  /\ UNCHANGED << drainVars, resolverVars, ffmpeg_cmd, log, process, childVars, threadVars,
                  waited, callVars, interrupts, kiAt, caught, polled,
                  timedOut, pending >>

\* variant: join() without a timeout
JoinExpired_Never(s) == FALSE

\* the timeout of join(timeout=1) has elapsed
JoinExpired(s) == joinWaited[s] = JoinTimeout

\* join(timeout=1) returns although the thread is still reading
JoinTimesOut(s, joinpc, next) ==
  /\ pc = joinpc
  /\ thread[s] = "alive"
  /\ JoinExpired(s)
  /\ joined' = [joined EXCEPT ![s] = "timeout"]
  /\ LeaveTo(next)
  /\ UNCHANGED << drainVars, resolverVars, ffmpeg_cmd, log, process, childVars, threadVars,
                  joinWaited, waited, callVars, interrupts, kiAt, caught, polled,
                  timedOut, pending >>

\* lines 215-216
FinStdout ==
  \/ FinCheck("stdout", "fin_out", "join_out", "fin_err")
  \/ JoinReturns("stdout", "join_out", "fin_err")
  \/ JoinTimesOut("stdout", "join_out", "fin_err")

\* variant: the finally block ends after the stdout join
FinStderr_NoJoin ==
  /\ pc = "fin_err"
  /\ LeaveTo("end")
  /\ UNCHANGED << drainVars, resolverVars, ffmpeg_cmd, log, process, childVars, threadVars,
                  joinVars, waited, callVars, interrupts, kiAt, caught, polled,
                  timedOut, pending >>

\* lines 217-218
FinStderr ==
  \/ FinCheck("stderr", "fin_err", "join_err", "end")
  \/ JoinReturns("stderr", "join_err", "end")
  \/ JoinTimesOut("stderr", "join_err", "end")

(* ------------------------------ time ----------------------------------- *)
\* one time unit passes inside a wait that has a timeout
Tick ==
  /\ \/ /\ pc = "wait10"
        /\ waited < GracefulTimeout
        /\ waited' = waited + 1
        /\ UNCHANGED joinWaited
     \/ /\ pc = "join_out"
        /\ joinWaited["stdout"] < JoinTimeout
        /\ joinWaited' = [joinWaited EXCEPT !["stdout"] = @ + 1]
        /\ UNCHANGED waited
     \/ /\ pc = "join_err"
        /\ joinWaited["stderr"] < JoinTimeout
        /\ joinWaited' = [joinWaited EXCEPT !["stderr"] = @ + 1]
        /\ UNCHANGED waited
  /\ UNCHANGED << drainVars, resolverVars, ffmpeg_cmd, log, pc, process, childVars,
                  threadVars, joined, callVars, excVars >>

(* ---------------------- the ffmpeg child process ----------------------- *)
\* exit codes the child can end with: its own, or the signal that ended it
ExitCodes ==
  OwnExitCodes \cup (IF termCount > 0 THEN {-15} ELSE {})
               \cup (IF killCount > 0 THEN {-9} ELSE {})

ChildExits ==
  /\ child = "running"
  /\ child' = "exited"
  /\ returncode' \in { ToString(c) : c \in ExitCodes }
  /\ UNCHANGED << drainVars, resolverVars, ffmpeg_cmd, log, pc, process, pipe, threadVars,
                  joinVars, waited, callVars, excVars >>

\* a killed child cannot stay alive
KilledChildExits == killCount > 0 /\ ChildExits

\* the write end of a pipe is closed; it may stay open after the child's exit
\* (a descendant that inherited it), so nothing forces this step
PipeCloses(s) ==
  /\ pipe[s] = "open"
  /\ child = "exited"
  /\ pipe' = [pipe EXCEPT ![s] = "closed"]
  /\ UNCHANGED << drainVars, resolverVars, ffmpeg_cmd, log, pc, process, child, returncode,
                  threadVars, joinVars, waited, callVars, excVars >>

(* ----------------- drain threads, lines 178-185 ------------------------ *)
\* lines of ffmpeg output as the text-mode pipe delivers them, character by
\* character, each ending with its newline
SampleLines ==
  { << "f", "r", "a", "m", "e", "=", " ", " ", "1", "0", " ", "f", "p", "s", "=", "2", "0", "\n" >>,
    << "s", "p", "e", "e", "d", "=", "1", ".", "0", "x", "\n" >>,
    << "I", "n", "v", "a", "l", "i", "d", " ", "a", "r", "g", "u", "m", "e", "n", "t", "\n" >>,
    << "C", "o", "n", "v", "e", "r", "s", "i", "o", "n", " ", "f", "a", "i", "l", "e", "d", "!", "\n" >>,
    << "x", ":", " ", "N", "o", " ", "s", "u", "c", "h", " ", "f", "i", "l", "e", " ", "o", "r", " ", "d", "i", "r", "e", "c", "t", "o", "r", "y", "\n" >>,
    << "E", "R", "R", "O", "R", "\n" >>,
    << "S", "t", "r", "e", "a", "m", " ", "#", "0", ":", "0", "\n" >>,
    << "f", "r", "a", "m", "e", "=", "5", " ", "e", "r", "r", "o", "r", "\n" >>,
    << "F", "R", "A", "M", "E", "=", "5", "\n" >> }

Lower(c) ==
  CASE c = "A" -> "a"
    [] c = "B" -> "b"
    [] c = "C" -> "c"
    [] c = "D" -> "d"
    [] c = "E" -> "e"
    [] c = "F" -> "f"
    [] c = "G" -> "g"
    [] c = "H" -> "h"
    [] c = "I" -> "i"
    [] c = "J" -> "j"
    [] c = "K" -> "k"
    [] c = "L" -> "l"
    [] c = "M" -> "m"
    [] c = "N" -> "n"
    [] c = "O" -> "o"
    [] c = "P" -> "p"
    [] c = "Q" -> "q"
    [] c = "R" -> "r"
    [] c = "S" -> "s"
    [] c = "T" -> "t"
    [] c = "U" -> "u"
    [] c = "V" -> "v"
    [] c = "W" -> "w"
    [] c = "X" -> "x"
    [] c = "Y" -> "y"
    [] c = "Z" -> "z"
    [] OTHER -> c

lower(line) == [i \in 1..Len(line) |-> Lower(line[i])]

\* 'pat in line': pat occurs as a contiguous substring
Contains(line, pat) ==
  \E i \in 0..(Len(line) - Len(pat)) :
    \A j \in 1..Len(pat) : line[i + j] = pat[j]

IsSpace(c) == c \in {" ", "\n", "\t", "\r"}

\* str.strip(): leading and trailing whitespace is removed
RECURSIVE strip(_)
strip(line) ==
  IF line = << >> THEN << >>
  ELSE IF IsSpace(Head(line)) THEN strip(Tail(line))
  ELSE IF IsSpace(line[Len(line)]) THEN strip(SubSeq(line, 1, Len(line) - 1))
  ELSE line

\* variant: the error keywords are matched without lower()
log_level_CaseSensitive(line) ==
  IF Contains(line, << "f", "r", "a", "m", "e", "=" >>) \/ Contains(line, << "s", "p", "e", "e", "d", "=" >>)
    THEN "info"
  ELSE IF \/ Contains(line, << "e", "r", "r", "o", "r" >>)
          \/ Contains(line, << "f", "a", "i", "l", "e", "d" >>)
          \/ Contains(line, << "n", "o", " ", "s", "u", "c", "h", " ", "f", "i", "l", "e", " ", "o", "r", " ", "d", "i", "r", "e", "c", "t", "o", "r", "y" >>)
          \/ Contains(line, << "i", "n", "v", "a", "l", "i", "d", " ", "a", "r", "g", "u", "m", "e", "n", "t" >>)
    THEN "warning"
  ELSE "debug"

\* the logging call chosen by the if/elif/else of lines 180-185
log_level(line) ==
  IF Contains(line, << "f", "r", "a", "m", "e", "=" >>) \/ Contains(line, << "s", "p", "e", "e", "d", "=" >>)
    THEN "info"
  ELSE IF \/ Contains(lower(line), << "e", "r", "r", "o", "r" >>)
          \/ Contains(lower(line), << "f", "a", "i", "l", "e", "d" >>)
          \/ Contains(lower(line), << "n", "o", " ", "s", "u", "c", "h", " ", "f", "i", "l", "e", " ", "o", "r", " ", "d", "i", "r", "e", "c", "t", "o", "r", "y" >>)
          \/ Contains(lower(line), << "i", "n", "v", "a", "l", "i", "d", " ", "a", "r", "g", "u", "m", "e", "n", "t" >>)
    THEN "warning"
  ELSE "debug"

\* the prefix argument given to each thread at lines 187-188
Prefix(s) == IF s = "stdout" THEN "FFMPEG_STDOUT" ELSE "FFMPEG_STDERR"

\* the lines written to stream s so far, in order
LinesOf(s) ==
  LET OnStream(w) == w[1] = s
      ws == SelectSeq(written, OnStream)
  IN  [i \in 1..Len(ws) |-> ws[i][2]]

\* ffmpeg writes one line to one of its pipes
ChildWrites(s, line) ==
  /\ child = "running"
  /\ pipe[s] = "open"
  /\ Len(written) < MaxLines
  /\ written' = Append(written, << s, line >>)
  /\ UNCHANGED << readPos, drainLog, resolverVars, ffmpeg_cmd, log, pc, process,
                  childVars, threadVars, joinVars, waited, callVars, excVars >>

\* variant: the thread takes the newest unread line first
DrainReads_Newest(s) ==
  /\ thread[s] = "alive"
  /\ readPos[s] < Len(LinesOf(s))
  /\ LET line == LinesOf(s)[Len(LinesOf(s)) - readPos[s]]
     IN  drainLog' = Append(drainLog, [ level |-> log_level(line),
                                        prefix |-> Prefix(s),
                                        text |-> strip(line) ])
  /\ readPos' = [readPos EXCEPT ![s] = @ + 1]
  /\ UNCHANGED << written, resolverVars, ffmpeg_cmd, log, pc, process,
                  childVars, threadVars, joinVars, waited, callVars, excVars >>

\* one iteration of 'for line in pipe': classify the next line and log it
DrainReads(s) ==
  /\ thread[s] = "alive"
  /\ readPos[s] < Len(LinesOf(s))
  /\ LET line == LinesOf(s)[readPos[s] + 1]
     IN  drainLog' = Append(drainLog, [ level |-> log_level(line),
                                        prefix |-> Prefix(s),
                                        text |-> strip(line) ])
  /\ readPos' = [readPos EXCEPT ![s] = @ + 1]
  /\ UNCHANGED << written, resolverVars, ffmpeg_cmd, log, pc, process,
                  childVars, threadVars, joinVars, waited, callVars, excVars >>

\* 'for line in pipe' ends at end-of-stream and the thread terminates
DrainEnds(s) ==
  /\ thread[s] = "alive"
  /\ pipe[s] = "closed"
  /\ readPos[s] = Len(LinesOf(s))
  /\ thread' = [thread EXCEPT ![s] = "finished"]
  /\ UNCHANGED << drainVars, resolverVars, ffmpeg_cmd, log, pc, process, childVars,
                  failedWhileRunning, joinVars, waited, callVars, excVars >>

\* reading a line raises inside the thread (e.g. a decoding error): the
\* exception ends that thread only, the main thread is not notified
DrainFails(s) ==
  /\ thread[s] = "alive"
  /\ pipe[s] = "open"
  /\ thread' = [thread EXCEPT ![s] = "failed"]
  /\ failedWhileRunning' = (failedWhileRunning \/ child = "running")
  /\ UNCHANGED << drainVars, resolverVars, ffmpeg_cmd, log, pc, process, childVars,
                  joinVars, waited, callVars, excVars >>

(* ------------------------ KeyboardInterrupt ---------------------------- *)
\* the part of run_ffmpeg_transcoder that position p belongs to
Region(p) ==
  IF p \in PreTry THEN "pre_try"
  ELSE IF p = "wait" THEN "wait"
  ELSE IF p \in TryBody THEN "try"
  ELSE IF p \in KiHandler THEN "ki_handler"
  ELSE IF p \in ExcHandler THEN "exc_handler"
  ELSE "finally"

\* where a KeyboardInterrupt raised at position p takes the main thread
InterruptTarget(p) ==
  IF p \in TryBody THEN "ki_handler"
  ELSE IF p \in KiHandler \cup ExcHandler THEN "fin_out"
  ELSE "raised"

\* Ctrl+C: the exception is raised in the main thread wherever it is
Interrupt ==
  /\ pc \notin Final
  /\ interrupts < MaxInterrupts
  /\ interrupts' = interrupts + 1
  /\ kiAt' = IF kiAt = "none" THEN Region(pc) ELSE kiAt
  /\ pc' = InterruptTarget(pc)
  /\ caught' = IF pc \in TryBody THEN "KeyboardInterrupt" ELSE caught
  /\ pending' = IF pc \in KiHandler \cup ExcHandler THEN "KeyboardInterrupt" ELSE pending
  /\ exc' = IF InterruptTarget(pc) = "raised" THEN "KeyboardInterrupt" ELSE exc
  /\ waited' = IF pc = "wait10" THEN 0 ELSE waited
  /\ joinWaited' = [s \in Streams |-> IF joined[s] = "timeout" THEN joinWaited[s] ELSE 0]
  /\ UNCHANGED << drainVars, resolverVars, ffmpeg_cmd, log, process, childVars, threadVars,
                  joined, callVars, polled, timedOut >>

(* --------------------------- specification ----------------------------- *)
MainStep ==
  \/ ResolveName \/ ResolveDone \/ CheckEmpty \/ Build
  \/ SpawnOk \/ SpawnFail \/ BindProcess
  \/ MakeStdoutThread \/ MakeStderrThread
  \/ StartStdoutThread \/ StartStderrThread
  \/ WaitReturns \/ LogExitCode
  \/ KiHandlerEntry \/ Terminate \/ GracefulWaitReturns \/ GracefulWaitTimesOut
  \/ KillAfterTimeout \/ WaitAfterKill \/ KiHandlerLog
  \/ ExcHandlerEntry \/ ExcKill
  \/ FinStdout \/ FinStderr

Environment ==
  \/ ChildExits
  \/ \E s \in Streams : PipeCloses(s)
  \/ \E s \in Streams : DrainEnds(s)
  \/ \E s \in Streams : DrainFails(s)
  \/ Interrupt

Next == MainStep \/ Tick \/ Environment

Spec == Init /\ [][Next]_vars

\* the run started without --profile: argparse supplies default=['high', 'low']
DefaultSelection == << "high", "low" >>

DefaultInit == Init /\ selected_profile_names = DefaultSelection

\* the default run; the main thread keeps running, time passes, a killed
\* process dies
FairSpec ==
  /\ DefaultInit
  /\ [][Next]_vars
  /\ WF_vars(MainStep)
  /\ WF_vars(Tick)
  /\ WF_vars(KilledChildExits)
\* the default run as it stands at line 195: the child runs, both drain
\* threads read, the main thread is blocked in process.wait()
RunningInit ==
  /\ selected_profile_names = DefaultSelection
  /\ idx = Len(DefaultSelection)
  /\ profiles_to_run = << ALL_STREAM_PROFILES[1], ALL_STREAM_PROFILES[2] >>
  /\ ffmpeg_cmd = build_ffmpeg_command(RTSP_INPUT_URL, profiles_to_run,
                                       MEDIAMTX_RTSP_BASE_URL)
  /\ log = << << "info", "start", "" >> >>
  /\ pc = "wait"
  /\ process = "Popen"
  /\ child = "running"
  /\ returncode = "None"
  /\ pipe = [s \in Streams |-> "open"]
  /\ thread = [s \in Streams |-> "alive"]
  /\ joined = [s \in Streams |-> "none"]
  /\ waited = 0
  /\ joinWaited = [s \in Streams |-> 0]
  /\ spawnCount = 1
  /\ termCount = 0
  /\ killCount = 0
  /\ interrupts = 0
  /\ kiAt = "none"
  /\ caught = "none"
  /\ polled = "none"
  /\ timedOut = FALSE
  /\ pending = "none"
  /\ exc = "none"
  /\ failedWhileRunning = FALSE
  /\ written = << >>
  /\ readPos = [s \in Streams |-> 0]
  /\ drainLog = << >>

\* the child's output and the two drain threads while the main thread waits
DrainNext ==
  \/ \E s \in Streams, line \in SampleLines : ChildWrites(s, line)
  \/ \E s \in Streams : DrainReads(s)
  \/ ChildExits
  \/ \E s \in Streams : PipeCloses(s)
  \/ \E s \in Streams : DrainEnds(s)

DrainSpec == RunningInit /\ [][DrainNext]_vars

(* ----------- build_ffmpeg_command called on its own, lines 76-136 ------- *)
\* a call of build_ffmpeg_command with any list of profiles; the list is
\* held in profiles_to_run and the returned vector in ffmpeg_cmd
CompileInit ==
  /\ \E sel \in SeqsUpTo(DOMAIN TestProfiles, MaxProfiles) :
       /\ profiles_to_run = [i \in DOMAIN sel |-> TestProfiles[sel[i]]]
       /\ selected_profile_names = [i \in DOMAIN sel |-> TestProfiles[sel[i]].name]
       /\ idx = Len(sel)
  /\ ffmpeg_cmd = << >>
  /\ log = << >>
  /\ pc = "call_build"
  /\ process = "None"
  /\ child = "none"
  /\ returncode = "None"
  /\ pipe = [s \in Streams |-> "none"]
  /\ thread = [s \in Streams |-> "unbound"]
  /\ joined = [s \in Streams |-> "none"]
  /\ waited = 0
  /\ joinWaited = [s \in Streams |-> 0]
  /\ spawnCount = 0
  /\ termCount = 0
  /\ killCount = 0
  /\ interrupts = 0
  /\ kiAt = "none"
  /\ caught = "none"
  /\ polled = "none"
  /\ timedOut = FALSE
  /\ pending = "none"
  /\ exc = "none"
  /\ failedWhileRunning = FALSE
  /\ written = << >>
  /\ readPos = [s \in Streams |-> 0]
  /\ drainLog = << >>

CallBuild ==
  /\ pc = "call_build"
  /\ ffmpeg_cmd' = build_ffmpeg_command(RTSP_INPUT_URL, profiles_to_run,
                                        MEDIAMTX_RTSP_BASE_URL)
  /\ pc' = "returned"
  /\ UNCHANGED << drainVars, resolverVars, log, process, childVars, threadVars,
                  joinVars, waited, callVars, excVars >>

CompileNext == CallBuild

CompileSpec == CompileInit /\ [][CompileNext]_vars

(* ------------------------------ claims --------------------------------- *)
Spawned == spawnCount > 0 /\ child # "none"

\* the three ways through the try statement: no exception, one interrupt
\* caught by 'except KeyboardInterrupt', an error caught by 'except Exception'
NaturalPath == caught = "none" /\ interrupts = 0
InterruptPath == caught = "KeyboardInterrupt" /\ interrupts = 1
ErrorPath == caught = "Exception" /\ interrupts = 0

\* the only interrupt of the run arrived while the main thread was blocked in
\* process.wait() at line 195, both drain threads started
InterruptedWhileRunning == kiAt = "wait" /\ interrupts = 1

Started(s) == thread[s] \in {"alive", "finished", "failed"}

\* teardown dealt with the drain thread of stream s: it had ended, or it was
\* joined for the full JoinTimeout
Joined(s) ==
  /\ joined[s] # "none"
  /\ thread[s] = "alive" => joined[s] = "timeout"
  /\ joined[s] = "timeout" => joinWaited[s] = JoinTimeout

ExitCodeLogged ==
  \E i \in DOMAIN log : log[i] = << "info", "exit_code", returncode >>

\* C1: once process.terminate() has been called after an interrupt of the
\* running supervisor, run_ffmpeg_transcoder does
\* not return or raise while the child is still alive, whatever further
\* interrupts arrive during the termination phase.
C1_TerminationRunsToCompletion ==
  (pc \in Final /\ kiAt = "wait" /\ termCount > 0) => child = "exited"

C3_NoKillWithoutTimeout ==
  (caught = "KeyboardInterrupt" /\ killCount > 0)
    => (termCount > 0 /\ timedOut /\ waited = GracefulTimeout)

C3_Witness ==
  /\ pc = "done"
  /\ InterruptedWhileRunning
  /\ termCount = 1
  /\ ~timedOut
  /\ child = "exited"
  /\ killCount = 0

\* C4: when run_ffmpeg_transcoder has returned and the child has exited, on
\* the natural-exit path or on the interrupt path where the child exits
\* within the timeout, the child's exit code has been logged.
C4_ExitCodeReported ==
  ( /\ pc = "done"
    /\ child = "exited"
    /\ \/ NaturalPath
       \/ InterruptedWhileRunning /\ termCount = 1 /\ ~timedOut )
    => ExitCodeLogged

\* C5: on the natural, the interrupt and the error path, when the function
\* ends after the child was started, every drain thread that was started was
\* found ended by the teardown or was joined with a timeout of JoinTimeout.
C5_TeardownJoinsDrainTasks ==
  (pc \in Final /\ Spawned /\ (NaturalPath \/ InterruptPath \/ ErrorPath))
    => \A s \in Streams : Started(s) => Joined(s)

C5_Witness ==
  /\ pc = "done"
  /\ NaturalPath
  /\ thread["stdout"] = "alive" /\ joined["stdout"] = "timeout"
  /\ thread["stderr"] = "finished" /\ joined["stderr"] = "finished"

\* C6: once the child has exited, run_ffmpeg_transcoder eventually ends,
\* also when a stream never closes and its drain thread keeps reading.
C6_ReturnsAfterChildExit ==
  (child = "exited") ~> (pc \in Final)

C6_Witness ==
  /\ pc = "done"
  /\ child = "exited"
  /\ \A s \in Streams : pipe[s] = "open" /\ thread[s] = "alive"
                        /\ joined[s] = "timeout"

\* C7: when a drain thread has died on a read error while the child was
\* running, the run does not end without the child having been killed.
C7_DrainFailureForcesKill ==
  (pc \in Final /\ failedWhileRunning /\ NaturalPath) => killCount > 0

\* C8: an error caught by 'except Exception' is never followed by
\* process.terminate() or the graceful wait, and when the handler found the
\* child running (and was not itself interrupted) process.kill() was called.
C8_ErrorKillsWithoutGrace ==
  caught = "Exception"
    => /\ termCount = 0
       /\ ~timedOut
       /\ waited = 0
       /\ (polled = "alive" /\ pending = "none" /\ pc \in FinallyBlock \cup Final)
            => killCount = 1

C8_Witness ==
  /\ pc = "done"
  /\ caught = "Exception"
  /\ polled = "alive"
  /\ killCount = 1
  /\ termCount = 0

\* C9: when every requested name has been looked up and none was found, the
\* run ends at the check: nothing is compiled, no child is spawned, no drain
\* thread is created, and a normal return has logged the error.
C9_NoValidProfilesStopsRun ==
  (idx = Len(selected_profile_names) /\ profiles_to_run = << >>)
    => /\ pc \in {"resolve", "check"} \cup Final
       /\ ffmpeg_cmd = << >>
       /\ spawnCount = 0
       /\ child = "none"
       /\ \A s \in Streams : thread[s] = "unbound"
       /\ pc = "done" => log[Len(log)] = << "error", "no_profiles", "" >>

C9_Witness ==
  /\ pc = "done"
  /\ selected_profile_names = << "bogus", "bogus" >>
  /\ log[Len(log)] = << "error", "no_profiles", "" >>

IsKnown(n) == n \in RegistryNames
IsUnknown(n) == n \notin RegistryNames
IsNotFoundWarning(e) == e[1] = "warning" /\ e[2] = "profile_not_found"

\* C10: the resolved list is the subsequence of the names handled so far that
\* are in the registry, in order and with repetitions; the warnings are the
\* unknown names, one each, in order; the loop handles every name.
C10_ResolverKeepsOrderAndDuplicates ==
  LET handled == SubSeq(selected_profile_names, 1, idx)
      warnings == SelectSeq(log, IsNotFoundWarning)
  IN  /\ [i \in 1..Len(profiles_to_run) |-> profiles_to_run[i].name]
           = SelectSeq(handled, IsKnown)
      /\ \A i \in 1..Len(profiles_to_run) :
           \E j \in DOMAIN ALL_STREAM_PROFILES :
             profiles_to_run[i] = ALL_STREAM_PROFILES[j]
      /\ [i \in 1..Len(warnings) |-> warnings[i][3]]
           = SelectSeq(handled, IsUnknown)
      /\ (pc # "resolve" /\ kiAt # "pre_try")
           => idx = Len(selected_profile_names)

C10_Witness ==
  /\ pc = "spawn"
  /\ selected_profile_names = << "quality", "quality" >>
  /\ Len(profiles_to_run) = 2
  /\ profiles_to_run[1].name = "quality"
  /\ profiles_to_run[2].name = "quality"

C10_WitnessUnknown ==
  /\ pc = "spawn"
  /\ selected_profile_names = << "bogus", "low" >>
  /\ Len(profiles_to_run) = 1
\* what run_ffmpeg_transcoder hands back: it has no 'return <value>', so a
\* call that returns yields None on every path
ReturnValue == "None"

HasMarker(line) ==
  Contains(line, << "f", "r", "a", "m", "e", "=" >>) \/ Contains(line, << "s", "p", "e", "e", "d", "=" >>)

HasErrorKeyword(line) ==
  \E kw \in { << "e", "r", "r", "o", "r" >>,
              << "f", "a", "i", "l", "e", "d" >>,
              << "n", "o", " ", "s", "u", "c", "h", " ", "f", "i", "l", "e", " ", "o", "r", " ", "d", "i", "r", "e", "c", "t", "o", "r", "y" >>,
              << "i", "n", "v", "a", "l", "i", "d", " ", "a", "r", "g", "u", "m", "e", "n", "t" >> } :
    Contains(lower(line), kw)

\* the records the drain thread of stream s has logged, in order
LoggedOf(s) ==
  LET FromStream(e) == e.prefix = Prefix(s)
  IN  SelectSeq(drainLog, FromStream)

\* C13 as stated: every logged line with a progress marker is informational,
\* every logged line with an error keyword is a warning, every other line is
\* debug-level.
C13_EveryKeywordLineIsWarning ==
  \A s \in Streams : \A i \in 1..Len(LoggedOf(s)) :
    LET line == LinesOf(s)[i]
        lvl == LoggedOf(s)[i].level
    IN  /\ HasMarker(line) => lvl = "info"
        /\ HasErrorKeyword(line) => lvl = "warning"
        /\ (~HasMarker(line) /\ ~HasErrorKeyword(line)) => lvl = "debug"

\* C13 amended: every logged line gets one level that depends on that line
\* only: informational when it has a progress marker, warning when it has an
\* error keyword and no progress marker, debug-level otherwise.
C13_MarkerWinsOverKeyword ==
  \A s \in Streams : \A i \in 1..Len(LoggedOf(s)) :
    LET line == LinesOf(s)[i]
        lvl == LoggedOf(s)[i].level
    IN  /\ HasMarker(line) => lvl = "info"
        /\ (HasErrorKeyword(line) /\ ~HasMarker(line)) => lvl = "warning"
        /\ (~HasMarker(line) /\ ~HasErrorKeyword(line)) => lvl = "debug"

C13_Witness ==
  /\ Len(drainLog) = 2
  /\ drainLog[1] = [ level |-> "warning", prefix |-> "FFMPEG_STDERR",
                     text |-> << "I", "n", "v", "a", "l", "i", "d", " ", "a", "r", "g", "u", "m", "e", "n", "t" >> ]
  /\ drainLog[2] = [ level |-> "info", prefix |-> "FFMPEG_STDOUT",
                     text |-> << "f", "r", "a", "m", "e", "=", "5", " ", "e", "r", "r", "o", "r" >> ]

\* C14: a child that exited by itself with a non-zero code leaves the caller
\* with something other than the outcome of a successful run (a plain return
\* of None), and the code is in the log.
C14_NonZeroExitReachesCaller ==
  (pc \in Final /\ NaturalPath /\ child = "exited" /\ returncode # "0")
    => /\ ExitCodeLogged
       /\ << ReturnValue, exc >> # << "None", "none" >>

\* a failed Popen: an attempt was made and no child exists
SpawnFailed == spawnCount > 0 /\ child = "none"

\* C15: after a failed spawn there is no second Popen call, no drain thread,
\* no terminate() and no kill(); control only moves from the error handler to
\* the teardown and out of the function.
C15_SpawnFailureAbortsWithoutRetry ==
  SpawnFailed
    => /\ spawnCount = 1
       /\ \A s \in Streams : thread[s] = "unbound"
       /\ termCount = 0
       /\ killCount = 0
       /\ pc \in {"exc_handler", "fin_out", "raised"}

C15_Witness ==
  /\ SpawnFailed
  /\ pc = "raised"
  /\ interrupts = 0
  /\ log[Len(log)] = << "error", "unexpected_error", "" >>

\* C18: each drain thread has logged exactly the lines it consumed from its
\* own stream, in the order the child wrote them, whatever the interleaving
\* with the other thread.
C18_PerStreamOrderPreserved ==
  \A s \in Streams :
    /\ Len(LoggedOf(s)) = readPos[s]
    /\ readPos[s] <= Len(LinesOf(s))
    /\ \A i \in 1..readPos[s] : LoggedOf(s)[i].text = strip(LinesOf(s)[i])

\* the child wrote to stdout first, the stderr line was logged first
C18_Witness ==
  /\ Len(written) = 2
  /\ written[1][1] = "stdout"
  /\ written[2][1] = "stderr"
  /\ Len(drainLog) = 2
  /\ drainLog[1].prefix = "FFMPEG_STDERR"
  /\ drainLog[2].prefix = "FFMPEG_STDOUT"

\* C19: whenever the finally block runs, both thread variables are bound, and
\* the function never ends with the UnboundLocalError of the teardown.
C19_TeardownNeverFails ==
  /\ pc \in FinallyBlock => \A s \in Streams : thread[s] # "unbound"
  /\ exc # "UnboundLocalError"

\* C20: with at most one interrupt, when run_ffmpeg_transcoder has ended
\* after spawning a child, that child has exited.
C20_NoChildOutlivesSupervisor ==
  (pc \in Final /\ Spawned /\ interrupts <= 1) => child = "exited"

(* ----------------- claims about build_ffmpeg_command ------------------- *)
Returned == pc = "returned"

GlobalArgs ==
  << "ffmpeg", "-i", RTSP_INPUT_URL, "-rtsp_transport", "tcp",
     "-threads", "0", "-nostdin", "-loglevel", "info" >>

\* positions of the output-sink directives '-f rtsp <destination>'
SinkAt(cmd) ==
  { i \in 1..(Len(cmd) - 2) : cmd[i] = "-f" /\ cmd[i + 1] = "rtsp" }

NthSink(cmd, k) ==
  CHOOSE i \in SinkAt(cmd) : Cardinality({ j \in SinkAt(cmd) : j <= i }) = k

Occurrences(cmd, token) == Cardinality({ i \in DOMAIN cmd : cmd[i] = token })

\* the k-th per-profile block: from the end of the previous block (or of the
\* global arguments) to the destination of the k-th sink
Block(cmd, k) ==
  SubSeq(cmd,
         IF k = 1 THEN Len(GlobalArgs) + 1 ELSE NthSink(cmd, k - 1) + 3,
         NthSink(cmd, k) + 2)

Sinks(cmd, n) == Cardinality(SinkAt(cmd)) = n /\ Occurrences(cmd, "-f") = n

IndexOf(b, token) == CHOOSE i \in DOMAIN b : b[i] = token

\* C11: for every non-empty list of profiles the returned vector has exactly
\* one '-f rtsp <destination>' per profile, the k-th destination is the base
\* URL, '/', and the name of the k-th profile: the sinks keep the list's order.
C11_OneSinkPerProfileInOrder ==
  (Returned /\ profiles_to_run # << >>) =>
     /\ Sinks(ffmpeg_cmd, Len(profiles_to_run))
     /\ \A k \in DOMAIN profiles_to_run :
          ffmpeg_cmd[NthSink(ffmpeg_cmd, k) + 2]
            = MEDIAMTX_RTSP_BASE_URL \o "/" \o profiles_to_run[k].name

\* two different profiles, the later registry entry first
C11_Witness ==
  /\ Returned
  /\ Len(profiles_to_run) = 2
  /\ profiles_to_run[1].name = "low" /\ profiles_to_run[2].name = "high"
  /\ Sinks(ffmpeg_cmd, 2)
  /\ ffmpeg_cmd[NthSink(ffmpeg_cmd, 1) + 2] = "rtsp://localhost:8554/live/low"
  /\ ffmpeg_cmd[Len(ffmpeg_cmd)] = "rtsp://localhost:8554/live/high"

\* floor(videoBitrateKbps * maxRateMultiplier) in exact arithmetic
ExactMaxRate(profile) ==
  (int_of(replace_k(profile.video_bitrate)) * profile.max_rate_multiplier.num)
     \div profile.max_rate_multiplier.den

\* C12: for every profile the emitted '-maxrate' is
\* floor(videoBitrateKbps * maxRateMultiplier) followed by 'k', and the
\* emitted '-bufsize' is exactly twice that value, also for non-integer
\* multipliers.
C12_MaxrateIsFloorOfProduct ==
  (Returned /\ Sinks(ffmpeg_cmd, Len(profiles_to_run))) =>
     \A k \in DOMAIN profiles_to_run :
        LET b == Block(ffmpeg_cmd, k)
            rate == ExactMaxRate(profiles_to_run[k])
        IN  /\ b[IndexOf(b, "-maxrate") + 1] = ToString(rate) \o "k"
            /\ b[IndexOf(b, "-bufsize") + 1] = ToString(2 * rate) \o "k"

\* the extra-option list of the codec family that the video codec names
FamilyOpts(profile) ==
  IF profile.video_codec = "libx265" /\ Has(profile, "x265_extra_opts")
    THEN profile.x265_extra_opts
  ELSE IF profile.video_codec = "hevc_nvenc" /\ Has(profile, "nvenc_extra_opts")
    THEN profile.nvenc_extra_opts
  ELSE IF profile.video_codec = "hevc_qsv" /\ Has(profile, "qsv_extra_opts")
    THEN profile.qsv_extra_opts
  ELSE << >>

\* the arguments of a block between the stream mapping and '-c:v'
ExtraArgs(b) == SubSeq(b, 5, IndexOf(b, "-c:v") - 1)

\* C16: for every profile the extra tuning arguments that are emitted are
\* the extra-option list of the codec family its video codec matches, and
\* nothing when no family matches: at most one list per profile.
C16_AtMostOneExtraOptionSet ==
  (Returned /\ Sinks(ffmpeg_cmd, Len(profiles_to_run))) =>
     \A k \in DOMAIN profiles_to_run :
        ExtraArgs(Block(ffmpeg_cmd, k)) = FamilyOpts(profiles_to_run[k])

\* every token of the profile's extra-option lists
OwnExtraTokens(profile) ==
  UNION { { profile[key][i] : i \in DOMAIN profile[key] } :
            key \in DOMAIN profile
                     \cap {"x265_extra_opts", "nvenc_extra_opts", "qsv_extra_opts"} }

\* the fixed layout of one profile's block
BlockInOrder(b, profile) ==
  /\ Len(b) >= 4
  /\ SubSeq(b, 1, 4) = << "-map", "0:v:0", "-map", "0:a:0?" >>
  /\ Occurrences(b, "-c:v") = 1
  /\ LET cv == IndexOf(b, "-c:v")
         rc == IF Has(profile, "preset") THEN cv + 4 ELSE cv + 2
         au == IF Has(profile, "output_fps") THEN rc + 18 ELSE rc + 16
     IN  /\ cv >= 5
         /\ \A i \in 5..(cv - 1) : b[i] \in OwnExtraTokens(profile)
         /\ Len(b) = au + 12
         /\ b[cv + 1] = profile.video_codec
         /\ Has(profile, "preset") =>
              SubSeq(b, cv + 2, cv + 3) = << "-preset", profile.preset >>
         /\ ~Has(profile, "preset") => Occurrences(b, "-preset") = 0
         /\ b[rc] = "-b:v" /\ b[rc + 1] = str_of(profile.video_bitrate)
         /\ b[rc + 2] = "-maxrate"
         /\ b[rc + 4] = "-bufsize"
         /\ SubSeq(b, rc + 6, rc + 7) = << "-s", profile.resolution >>
         /\ SubSeq(b, rc + 8, rc + 9) = << "-g", ToString(profile.gop_size) >>
         /\ b[rc + 10] = "-keyint_min" /\ b[rc + 11] = b[rc + 9]
         /\ SubSeq(b, rc + 12, rc + 15)
              = << "-sc_threshold", "0", "-pix_fmt", "yuv420p" >>
         /\ Has(profile, "output_fps") =>
              SubSeq(b, rc + 16, rc + 17) = << "-r", ToString(profile.output_fps) >>
         /\ ~Has(profile, "output_fps") => Occurrences(b, "-r") = 0
         /\ SubSeq(b, au, au + 3)
              = << "-c:a", profile.audio_codec, "-b:a", profile.audio_bitrate >>
         /\ SubSeq(b, au + 4, au + 9)
              = << "-ac", "2", "-ar", "48000", "-af",
                   "aresample=async=1000:first_pts=0" >>
         /\ SubSeq(b, au + 10, au + 12)
              = << "-f", "rtsp", MEDIAMTX_RTSP_BASE_URL \o "/" \o profile.name >>

\* C17: the returned vector starts with the global input arguments, which
\* occur once; it continues with one contiguous block per profile, in the
\* order of the list, and every block has the fixed layout: stream mapping,
\* extra options, video codec, preset if present, rate-control block with
\* the minimum keyframe interval equal to the GOP size, frame-rate cap if
\* present, audio block, output sink, all taken from that block's profile.
C17_GlobalsOnceThenOrderedBlocks ==
  Returned =>
     /\ Len(ffmpeg_cmd) >= Len(GlobalArgs)
     /\ SubSeq(ffmpeg_cmd, 1, Len(GlobalArgs)) = GlobalArgs
     /\ Occurrences(ffmpeg_cmd, "ffmpeg") = 1
     /\ Occurrences(ffmpeg_cmd, "-i") = 1
     /\ Occurrences(ffmpeg_cmd, "-nostdin") = 1
     /\ Sinks(ffmpeg_cmd, Len(profiles_to_run))
     /\ profiles_to_run = << >> => ffmpeg_cmd = GlobalArgs
     /\ profiles_to_run # << >> =>
          NthSink(ffmpeg_cmd, Len(profiles_to_run)) + 2 = Len(ffmpeg_cmd)
     /\ \A k \in DOMAIN profiles_to_run :
          BlockInOrder(Block(ffmpeg_cmd, k), profiles_to_run[k])

\* a block with preset and frame-rate cap followed by a block with neither
C17_Witness ==
  /\ Returned
  /\ Len(profiles_to_run) = 2
  /\ Has(profiles_to_run[1], "preset") /\ Has(profiles_to_run[1], "output_fps")
  /\ ~Has(profiles_to_run[2], "preset") /\ ~Has(profiles_to_run[2], "output_fps")
  /\ Sinks(ffmpeg_cmd, 2)
  /\ Len(Block(ffmpeg_cmd, 1)) > Len(Block(ffmpeg_cmd, 2))
====
